---- MODULE Spec2Model ----
(***************************************************************************)
(* A model of the gsoc2-cli JavaScript bridge (js/helper.js, js/index.js): *)
(* binary-path resolution, option serialization and execute's child        *)
(* environment.                                                            *)
(***************************************************************************)
EXTENDS Integers, Sequences, FiniteSets, TLC

VARIABLES
    platform,          \* os.platform()
    arch,              \* os.arch()
    envBinaryPath,     \* process.env.GSOC2_BINARY_PATH
    mockedBinaryPath,  \* the module-level slot of helper.js
    fallbackExists,    \* fs.existsSync(getFallbackBinaryPath())
    installed,         \* the distributions require.resolve can find
    pathResult,        \* outcome of the last getPath() call
    distResult,        \* value of the last getDistributionForThisPlatform() call
    serResult,         \* outcome of the last serializeOptions / prepareCommand call
    procEnv,           \* process.env (configuration variables)
    execResult,        \* outcome of the last execute() call
    calls,             \* the execute() calls in flight together, in call order
    relResult          \* the execute() invocation made by the last releases command

vars == <<platform, arch, envBinaryPath, mockedBinaryPath, fallbackExists,
          installed, pathResult, distResult, serResult, procEnv, execResult,
          calls, relResult>>

\* JavaScript's undefined, where a string is expected otherwise.
UNDEFINED == "<undefined>"

(***************************************************************************)
(* Bounds and input sets.                                                  *)
(***************************************************************************)
\* Largest number of companion packages present in node_modules at once.
MaxInstalled == 2

Platforms == {"darwin", "linux", "freebsd", "win32", "sunos"}
Archs == {"x64", "x86", "ia32", "arm64", "arm", "ppc64"}

\* Values of process.env.GSOC2_BINARY_PATH: unset, empty, a path.
EnvPathValues == {UNDEFINED, "", "/opt/env/gsoc2-cli"}
\* Arguments of mockBinaryPath.
MockPathValues == {UNDEFINED, "/mock/gsoc2-cli"}

(***************************************************************************)
(* The distribution table and the platform mapping.                        *)
(***************************************************************************)
Dist(p, s) == [packageName |-> p, subpath |-> s]

BINARY_DISTRIBUTIONS ==
    << Dist("@gsoc2/cli-darwin", "bin/gsoc2-cli"),
       Dist("@gsoc2/cli-linux-x64", "bin/gsoc2-cli"),
       Dist("@gsoc2/cli-linux-i686", "bin/gsoc2-cli"),
       Dist("@gsoc2/cli-linux-arm64", "bin/gsoc2-cli"),
       Dist("@gsoc2/cli-linux-arm", "bin/gsoc2-cli"),
       Dist("@gsoc2/cli-win32-x64", "bin/gsoc2-cli.exe"),
       Dist("@gsoc2/cli-win32-i686", "bin/gsoc2-cli.exe") >>

DistSet == {BINARY_DISTRIBUTIONS[i] : i \in DOMAIN BINARY_DISTRIBUTIONS}

\* A resolved path: where it is rooted, the package (if any), the file.
Path(root, pkg, file) == [root |-> root, pkg |-> pkg, file |-> file]
\* A path given as a string by the environment or by mockBinaryPath.
LiteralPath(s) == Path("literal", "", s)

getFallbackBinaryPath(plat) ==
    Path("install-root", "", IF plat = "win32" THEN "gsoc2-cli.exe" ELSE "gsoc2-cli")

PackageNameMissingIa32(plat, ar) ==
    IF plat = "darwin" THEN "@gsoc2/cli-darwin"
    ELSE IF plat \in {"linux", "freebsd"} THEN
        CASE ar = "x64" -> "@gsoc2/cli-linux-x64"
          [] ar = "x86" -> "@gsoc2/cli-linux-i686"
          [] ar = "arm64" -> "@gsoc2/cli-linux-arm64"
          [] ar = "arm" -> "@gsoc2/cli-linux-arm"
          [] OTHER -> UNDEFINED
    ELSE IF plat = "win32" THEN
        CASE ar = "x64" -> "@gsoc2/cli-win32-x64"
          [] ar = "x86" -> "@gsoc2/cli-win32-i686"
          [] OTHER -> UNDEFINED
    ELSE UNDEFINED

PackageNameFor(plat, ar) ==
    IF plat = "darwin" THEN "@gsoc2/cli-darwin"
    ELSE IF plat \in {"linux", "freebsd"} THEN
        CASE ar = "x64" -> "@gsoc2/cli-linux-x64"
          [] ar \in {"x86", "ia32"} -> "@gsoc2/cli-linux-i686"
          [] ar = "arm64" -> "@gsoc2/cli-linux-arm64"
          [] ar = "arm" -> "@gsoc2/cli-linux-arm"
          [] OTHER -> UNDEFINED
    ELSE IF plat = "win32" THEN
        CASE ar = "x64" -> "@gsoc2/cli-win32-x64"
          [] ar \in {"x86", "ia32"} -> "@gsoc2/cli-win32-i686"
          [] OTHER -> UNDEFINED
    ELSE UNDEFINED

SubpathFor(plat) ==
    IF plat = "win32" THEN "bin/gsoc2-cli.exe" ELSE "bin/gsoc2-cli"

getDistributionForThisPlatform(plat, ar) ==
    Dist(PackageNameFor(plat, ar), SubpathFor(plat))

(***************************************************************************)
(* require.resolve and getBinaryPath.                                      *)
(***************************************************************************)
\* require.resolve(`${packageName}/${subpath}`) succeeds.
Resolvable(inst, d) == d \in inst

\* BINARY_DISTRIBUTIONS.find(...): index of the first resolvable entry, 0 if none.
FindInstalled(inst) ==
    LET hits == {i \in DOMAIN BINARY_DISTRIBUTIONS : Resolvable(inst, BINARY_DISTRIBUTIONS[i])}
    IN IF hits = {} THEN 0 ELSE CHOOSE i \in hits : \A j \in hits : i <= j

\* The require.resolve calls of the catch block, in order.
FindLookups(inst) ==
    LET k == FindInstalled(inst)
    IN SubSeq(BINARY_DISTRIBUTIONS, 1, IF k = 0 THEN Len(BINARY_DISTRIBUTIONS) ELSE k)

Returned(p, looks) ==
    [kind |-> "return", path |-> p, error |-> "", installedPkg |-> "",
     neededPkg |-> "", lookups |-> looks]
Thrown(e, ipkg, npkg, looks) ==
    [kind |-> "throw", path |-> Path("", "", ""), error |-> e, installedPkg |-> ipkg,
     neededPkg |-> npkg, lookups |-> looks]
NoCall ==
    [kind |-> "none", path |-> Path("", "", ""), error |-> "", installedPkg |-> "",
     neededPkg |-> "", lookups |-> <<>>]

\* A JavaScript string is truthy when it is defined and not empty.
Truthy(s) == s # UNDEFINED /\ s # ""

getBinaryPathFallbackFirst(envPath, plat, ar, fbExists, inst) ==
    LET d == getDistributionForThisPlatform(plat, ar)
        k == FindInstalled(inst)
    IN IF Truthy(envPath) THEN Returned(LiteralPath(envPath), <<>>)
       ELSE IF fbExists THEN Returned(getFallbackBinaryPath(plat), <<>>)
       ELSE IF d.packageName = UNDEFINED THEN Thrown("UnsupportedPlatform", "", "", <<>>)
       ELSE IF Resolvable(inst, d)
            THEN Returned(Path("node_modules", d.packageName, d.subpath), <<d>>)
       ELSE IF k # 0
            THEN Thrown("WrongPlatformPackage", BINARY_DISTRIBUTIONS[k].packageName,
                        d.packageName, <<d>> \o FindLookups(inst))
       ELSE Thrown("NoOptionalDependencies", "", d.packageName, <<d>> \o FindLookups(inst))

getBinaryPathNoPlatformCheck(envPath, plat, ar, fbExists, inst) ==
    LET d == getDistributionForThisPlatform(plat, ar)
        k == FindInstalled(inst)
    IN IF Truthy(envPath) THEN Returned(LiteralPath(envPath), <<>>)
       ELSE IF fbExists THEN Returned(getFallbackBinaryPath(plat), <<>>)
       ELSE IF Resolvable(inst, d)
            THEN Returned(Path("node_modules", d.packageName, d.subpath), <<d>>)
       ELSE IF k # 0
            THEN Thrown("WrongPlatformPackage", BINARY_DISTRIBUTIONS[k].packageName,
                        d.packageName, <<d>> \o FindLookups(inst))
       ELSE Thrown("NoOptionalDependencies", "", d.packageName, <<d>> \o FindLookups(inst))

getBinaryPathAnyInstalled(envPath, plat, ar, fbExists, inst) ==
    LET d == getDistributionForThisPlatform(plat, ar)
        k == FindInstalled(inst)
    IN IF Truthy(envPath) THEN Returned(LiteralPath(envPath), <<>>)
       ELSE IF d.packageName = UNDEFINED THEN Thrown("UnsupportedPlatform", "", "", <<>>)
       ELSE IF fbExists THEN Returned(getFallbackBinaryPath(plat), <<>>)
       ELSE IF Resolvable(inst, d)
            THEN Returned(Path("node_modules", d.packageName, d.subpath), <<d>>)
       ELSE IF k # 0
            THEN Returned(Path("node_modules", BINARY_DISTRIBUTIONS[k].packageName,
                               BINARY_DISTRIBUTIONS[k].subpath), <<d>> \o FindLookups(inst))
       ELSE Thrown("NoOptionalDependencies", "", d.packageName, <<d>> \o FindLookups(inst))

getBinaryPath(envPath, plat, ar, fbExists, inst) ==
    LET d == getDistributionForThisPlatform(plat, ar)
        k == FindInstalled(inst)
    IN IF Truthy(envPath) THEN Returned(LiteralPath(envPath), <<>>)
       ELSE IF d.packageName = UNDEFINED THEN Thrown("UnsupportedPlatform", "", "", <<>>)
       ELSE IF fbExists THEN Returned(getFallbackBinaryPath(plat), <<>>)
       ELSE IF Resolvable(inst, d)
            THEN Returned(Path("node_modules", d.packageName, d.subpath), <<d>>)
       ELSE IF k # 0
            THEN Thrown("WrongPlatformPackage", BINARY_DISTRIBUTIONS[k].packageName,
                        d.packageName, <<d>> \o FindLookups(inst))
       ELSE Thrown("NoOptionalDependencies", "", d.packageName, <<d>> \o FindLookups(inst))

getPathEnvFirst(mock, envPath, plat, ar, fbExists, inst) ==
    IF Truthy(envPath) THEN Returned(LiteralPath(envPath), <<>>)
    ELSE IF mock # UNDEFINED THEN Returned(LiteralPath(mock), <<>>)
    ELSE getBinaryPath(envPath, plat, ar, fbExists, inst)

getPath(mock, envPath, plat, ar, fbExists, inst) ==
    IF mock # UNDEFINED THEN Returned(LiteralPath(mock), <<>>)
    ELSE getBinaryPath(envPath, plat, ar, fbExists, inst)

(***************************************************************************)
(* JavaScript values handled by the serializer.                            *)
(***************************************************************************)
Undef == [t |-> "undefined"]
Null == [t |-> "null"]
Bool(b) == [t |-> "boolean", b |-> b]
Num(n) == [t |-> "number", n |-> n]
Str(s) == [t |-> "string", s |-> s]
Arr(a) == [t |-> "array", a |-> a]
\* A string built by concatenation, kept as its pieces in order.
Pieces(ps) == [t |-> "string", pieces |-> ps]

\* Decimal digits of the numbers used as option values.
NumText(n) == CASE n = 0 -> "0" [] n = 1 -> "1" [] n = 2 -> "2" [] OTHER -> "NaN"

\* String(value) of a primitive value.
String(v) ==
    CASE v.t = "string" -> v
      [] v.t = "number" -> Str(NumText(v.n))
      [] v.t = "boolean" -> Str(IF v.b THEN "true" ELSE "false")
      [] v.t = "null" -> Str("null")
      [] OTHER -> Str("undefined")

\* The text of one element inside Array.prototype.join: null and undefined are empty.
JoinText(v) ==
    CASE v.t \in {"null", "undefined"} -> <<>>
      [] OTHER -> <<String(v).s>>

\* Array.prototype.toString: the elements joined with commas, as pieces.
RECURSIVE JoinComma(_)
JoinComma(a) ==
    IF Len(a) = 0 THEN <<>>
    ELSE IF Len(a) = 1 THEN JoinText(a[1])
    ELSE JoinText(a[1]) \o <<",">> \o JoinComma(Tail(a))

\* One argument of Array.prototype.concat: an array is spread, anything else appended.
ConcatArg(v) == IF v.t = "array" THEN v.a ELSE <<v>>

(***************************************************************************)
(* Schemas and option objects. An object is the sequence of its own        *)
(* properties in Object.keys order.                                        *)
(***************************************************************************)
Prop(k, v) == [key |-> k, value |-> v]

\* options[option]
Get(obj, k) ==
    IF \E i \in DOMAIN obj : obj[i].key = k
    THEN obj[CHOOSE i \in DOMAIN obj : obj[i].key = k].value
    ELSE Undef

\* A schema entry as an object literal; properties left out are undefined.
Entry(k, type, param, invertedParam, flag, invertedFlag) ==
    [key |-> k, type |-> type, param |-> param, invertedParam |-> invertedParam,
     flag |-> flag, invertedFlag |-> invertedFlag]

SerReturned(tokens) == [kind |-> "return", tokens |-> tokens, error |-> "", option |-> ""]
SerThrown(e, k) == [kind |-> "throw", tokens |-> <<>>, error |-> e, option |-> k]

ArrayTokensUnconverted(paramName, values) ==
    [j \in 1..(2 * Len(values)) |-> IF j % 2 = 1 THEN paramName ELSE values[j \div 2]]

\* paramValue.reduce((acc, value) => acc.concat([paramName, String(value)]), [])
RECURSIVE ArrayTokens(_, _)
ArrayTokens(paramName, values) ==
    IF Len(values) = 0 THEN <<>>
    ELSE <<paramName, String(values[1])>> \o ArrayTokens(paramName, Tail(values))

BooleanTokensAlwaysFlag(paramValue, paramName, invertedParamName) ==
    IF paramName # Undef THEN <<paramName>>
    ELSE IF ~paramValue.b /\ invertedParamName # Undef THEN <<invertedParamName>>
    ELSE <<>>

\* What the boolean branch concatenates to newOptions.
BooleanTokens(paramValue, paramName, invertedParamName) ==
    IF paramValue.b /\ paramName # Undef THEN <<paramName>>
    ELSE IF ~paramValue.b /\ invertedParamName # Undef THEN <<invertedParamName>>
    ELSE <<>>

\* The reducer of serializeOptions from schema key i on, newOptions being acc.
RECURSIVE SerializeFrom(_, _, _, _)
SerializeFrom(schema, options, i, acc) ==
    IF i > Len(schema) THEN SerReturned(acc)
    ELSE
      LET option == schema[i].key
          paramValue == Get(options, option)
          paramType == schema[i].type
          paramName == schema[i].param
          invertedParamName == schema[i].invertedParam
      IN IF paramValue = Undef \/ paramValue = Null
         THEN SerializeFrom(schema, options, i + 1, acc)
         ELSE IF paramType = "array"
         THEN IF paramValue.t # "array"
              THEN SerThrown("should be an array", option)
              ELSE SerializeFrom(schema, options, i + 1,
                                 acc \o ArrayTokens(paramName, paramValue.a))
         ELSE IF paramType = "boolean"
         THEN IF paramValue.t # "boolean"
              THEN SerThrown("should be a bool", option)
              ELSE SerializeFrom(schema, options, i + 1,
                                 acc \o BooleanTokens(paramValue, paramName,
                                                      invertedParamName))
         ELSE SerializeFrom(schema, options, i + 1,
                            acc \o ConcatArg(paramName) \o ConcatArg(paramValue))

\* The schema entries reordered to follow the option object's own key order.
InOptionsOrder(schema, options) ==
    LET idx == {i \in DOMAIN options : \E j \in DOMAIN schema : schema[j].key = options[i].key}
        F[n \in 0..Len(options)] ==
            IF n = 0 THEN <<>>
            ELSE IF n \in idx
                 THEN Append(F[n - 1],
                             schema[CHOOSE j \in DOMAIN schema : schema[j].key = options[n].key])
                 ELSE F[n - 1]
    IN F[Len(options)]

serializeOptionsInOptionsOrder(schema, options) ==
    SerializeFrom(InOptionsOrder(schema, options), options, 1, <<>>)

serializeOptions(schema, options) == SerializeFrom(schema, options, 1, <<>>)

\* schema || {} and options || {}
OrEmpty(obj) == IF obj = Undef THEN <<>> ELSE obj.o
Obj(props) == [t |-> "object", o |-> props]

\* command.concat(list) for a string receiver: String.prototype.concat.
StringConcat(command, list) == Pieces(<<command.s>> \o JoinComma(list))

prepareCommand(command, schema, options) ==
    LET ser == serializeOptions(OrEmpty(schema), OrEmpty(options))
    IN IF ser.kind = "throw" THEN [kind |-> "throw", value |-> Undef, error |-> ser.error,
                                   option |-> ser.option]
       ELSE [kind |-> "return", error |-> "", option |-> "",
             value |-> IF command.t = "array"
                       THEN Arr(command.a \o ser.tokens)
                       ELSE StringConcat(command, ser.tokens)]

(***************************************************************************)
(* The serializer's inputs and its state machine.                          *)
(***************************************************************************)
\* Largest number of own properties of an options object.
MaxOptions == 2

SchemaKeys == {"paths", "yes"}
OptionKeys == SchemaKeys \cup {"extra"}
OptionTypes == {"array", "boolean", "string"}

FlagOf(k) == Str(IF k = "paths" THEN "--path" ELSE "--yes")
InvertedFlagOf(k) == Str(IF k = "paths" THEN "--no-path" ELSE "--no")

\* The entries a caller may declare for key k: with param and/or invertedParam, with
\* neither, or with the properties named flag and invertedFlag.
EntriesOf(k) ==
    UNION {{ Entry(k, ty, FlagOf(k), InvertedFlagOf(k), Undef, Undef),
             Entry(k, ty, FlagOf(k), Undef, Undef, Undef),
             Entry(k, ty, Undef, InvertedFlagOf(k), Undef, Undef),
             Entry(k, ty, Undef, Undef, Undef, Undef),
             Entry(k, ty, Undef, Undef, FlagOf(k), InvertedFlagOf(k)) } : ty \in OptionTypes}

DistinctKeys(obj) == \A i, j \in DOMAIN obj : obj[i].key = obj[j].key => i = j

Schemas ==
    {<<>>} \cup {<<e>> : e \in UNION {EntriesOf(k) : k \in SchemaKeys}}
           \cup {s \in {<<e1, e2>> : e1 \in UNION {EntriesOf(k) : k \in SchemaKeys},
                                     e2 \in UNION {EntriesOf(k) : k \in SchemaKeys}} :
                   DistinctKeys(s)}

OptionValues ==
    {Undef, Null, Bool(TRUE), Bool(FALSE), Str("a"), Arr(<<Str("b"), Num(1), Str("a")>>)}

OptionProps ==
    {Prop(k, v) : k \in SchemaKeys, v \in OptionValues} \cup {Prop("extra", Str("a"))}

OptionObjects ==
    UNION {{o \in [1..n -> OptionProps] : DistinctKeys(o)} : n \in 0..MaxOptions}

\* A literal command name, or a sequence of subcommand tokens.
Commands == {Str("releases"), Arr(<<Str("releases"), Str("new")>>)}

SerCall(op, command, schema, options, out) ==
    [op |-> op, command |-> command, schema |-> schema, options |-> options, out |-> out]

SerIdle ==
    SerCall("none", Undef, Undef, Undef,
            [kind |-> "none", value |-> Undef, error |-> "", option |-> ""])

InitSer == serResult = SerIdle

\* The caller has taken the outcome of the call; the next call starts afresh.
SerCallerContinues ==
    /\ serResult # SerIdle
    /\ serResult' = SerIdle
    /\ UNCHANGED <<platform, arch, envBinaryPath, mockedBinaryPath, fallbackExists,
                   installed, pathResult, distResult, procEnv, execResult, calls, relResult>>

CallSerializeOptions ==
    /\ serResult = SerIdle
    /\ \E schema \in Schemas, options \in OptionObjects :
         LET ser == serializeOptions(schema, options)
         IN serResult' = SerCall("serializeOptions", Undef, Obj(schema), Obj(options),
                                 [kind |-> ser.kind, value |-> Arr(ser.tokens),
                                  error |-> ser.error, option |-> ser.option])
    /\ UNCHANGED <<platform, arch, envBinaryPath, mockedBinaryPath, fallbackExists,
                   installed, pathResult, distResult, procEnv, execResult, calls, relResult>>

CallPrepareCommand ==
    /\ serResult = SerIdle
    /\ \E command \in Commands,
          schema \in {Undef} \cup {Obj(x) : x \in Schemas},
          options \in {Undef} \cup {Obj(x) : x \in OptionObjects} :
         serResult' = SerCall("prepareCommand", command, schema, options,
                              prepareCommand(command, schema, options))
    /\ UNCHANGED <<platform, arch, envBinaryPath, mockedBinaryPath, fallbackExists,
                   installed, pathResult, distResult, procEnv, execResult, calls, relResult>>
(***************************************************************************)
(* execute: the child environment, the argument list, the promise.         *)
(***************************************************************************)
\* Largest number of configuration values (configFile included) given to one call.
MaxConfigFields == 2

ConfigFields ==
    {"url", "authToken", "apiKey", "dsn", "org", "project", "vcsRemote", "customHeader"}

\* The variables of process.env the model follows, besides GSOC2_BINARY_PATH.
EnvNames ==
    {"PATH", "GSOC2_PROPERTIES", "GSOC2_URL", "GSOC2_AUTH_TOKEN", "GSOC2_API_KEY",
     "GSOC2_DSN", "GSOC2_ORG", "GSOC2_PROJECT", "GSOC2_VCS_REMOTE", "CUSTOM_HEADER"}

\* { ...process.env }
CopyEnv(env, binaryPath) ==
    [n \in EnvNames \cup {"GSOC2_BINARY_PATH"} |->
        IF n = "GSOC2_BINARY_PATH" THEN binaryPath ELSE env[n]]

ChildEnvTokenAsApiKey(env, binaryPath, configFile, config) ==
    [n \in EnvNames \cup {"GSOC2_BINARY_PATH"} |->
        IF n = "GSOC2_PROPERTIES" /\ Truthy(configFile) THEN configFile
        ELSE IF n = "GSOC2_URL" /\ Truthy(config.url) THEN config.url
        ELSE IF n = "GSOC2_API_KEY" /\ Truthy(config.authToken) THEN config.authToken
        ELSE IF n = "GSOC2_API_KEY" /\ Truthy(config.apiKey) THEN config.apiKey
        ELSE IF n = "GSOC2_DSN" /\ Truthy(config.dsn) THEN config.dsn
        ELSE IF n = "GSOC2_ORG" /\ Truthy(config.org) THEN config.org
        ELSE IF n = "GSOC2_PROJECT" /\ Truthy(config.project) THEN config.project
        ELSE IF n = "GSOC2_VCS_REMOTE" /\ Truthy(config.vcsRemote) THEN config.vcsRemote
        ELSE IF n = "CUSTOM_HEADER" /\ Truthy(config.customHeader) THEN config.customHeader
        ELSE CopyEnv(env, binaryPath)[n]]

\* The env object after the chain of if statements.
ChildEnv(env, binaryPath, configFile, config) ==
    [n \in EnvNames \cup {"GSOC2_BINARY_PATH"} |->
        IF n = "GSOC2_PROPERTIES" /\ Truthy(configFile) THEN configFile
        ELSE IF n = "GSOC2_URL" /\ Truthy(config.url) THEN config.url
        ELSE IF n = "GSOC2_AUTH_TOKEN" /\ Truthy(config.authToken) THEN config.authToken
        ELSE IF n = "GSOC2_API_KEY" /\ Truthy(config.apiKey) THEN config.apiKey
        ELSE IF n = "GSOC2_DSN" /\ Truthy(config.dsn) THEN config.dsn
        ELSE IF n = "GSOC2_ORG" /\ Truthy(config.org) THEN config.org
        ELSE IF n = "GSOC2_PROJECT" /\ Truthy(config.project) THEN config.project
        ELSE IF n = "GSOC2_VCS_REMOTE" /\ Truthy(config.vcsRemote) THEN config.vcsRemote
        ELSE IF n = "CUSTOM_HEADER" /\ Truthy(config.customHeader) THEN config.customHeader
        ELSE CopyEnv(env, binaryPath)[n]]

\* Object.entries(config.headers).flatMap(([key, value]) => ['--header', `${key}:${value}`])
RECURSIVE HeaderArgs(_)
HeaderArgs(headers) ==
    IF Len(headers) = 0 THEN <<>>
    ELSE <<Str("--header"), Pieces(<<headers[1].key, ":", headers[1].value>>)>>
         \o HeaderArgs(Tail(headers))

ChildArgsHeadersAlways(args, config) ==
    IF config.headers # Undef THEN HeaderArgs(config.headers.o) \o args ELSE args

\* The args handed to the binary.
ChildArgs(args, config) ==
    IF Truthy(config.customHeader) THEN args
    ELSE IF config.headers # Undef THEN HeaderArgs(config.headers.o) \o args
    ELSE args

\* A child's exit status before it has one.
NoStatus == -1

NoChild ==
    [state |-> "none", path |-> Path("", "", ""), stdio |-> <<>>,
     status |-> NoStatus, stdout |-> ""]
Pending == [state |-> "pending", value |-> Undef, error |-> "", code |-> 0]
Resolved(v) == [state |-> "resolved", value |-> v, error |-> "", code |-> 0]
Rejected(e, c) == [state |-> "rejected", value |-> Undef, error |-> e, code |-> c]

\* One call of execute: what it was given, what it handed to the child, the promise it
\* returned; threw says the call itself threw, resolutions counts its getPath() calls.
ExecCall(phase, inp, env, argv, mode, child, promise, uncaught) ==
    [phase |-> phase, in |-> inp, env |-> env, argv |-> argv, mode |-> mode,
     child |-> child, promise |-> promise, uncaught |-> uncaught,
     threw |-> FALSE, resolutions |-> IF phase = "none" THEN 0 ELSE 1]

\* JavaScript truthiness of a value.
TruthyValue(v) ==
    CASE v.t = "boolean" -> v.b
      [] v.t = "number" -> v.n # 0
      [] v.t = "string" -> v.s # ""
      [] v.t \in {"undefined", "null"} -> FALSE
      [] OTHER -> TRUE

executeTruthyLive(args, live, silent, configFile, config, env, binaryPath, pathOutcome) ==
    LET mode == IF TruthyValue(live) THEN "live" ELSE "buffered"
        output == IF silent THEN "ignore" ELSE "inherit"
        stdio == IF mode = "live" THEN <<"ignore", output, output>>
                 ELSE <<"pipe", "pipe", "pipe">>
        inp == [args |-> args, live |-> live, silent |-> silent,
                configFile |-> configFile, config |-> config]
    IN IF pathOutcome.kind = "throw"
       THEN ExecCall("settled", inp, ChildEnv(env, binaryPath, configFile, config),
                     ChildArgs(args, config), mode, NoChild,
                     Rejected(pathOutcome.error, 0), FALSE)
       ELSE ExecCall("running", inp, ChildEnv(env, binaryPath, configFile, config),
                     ChildArgs(args, config), mode,
                     [state |-> "running", path |-> pathOutcome.path, stdio |-> stdio,
                      status |-> NoStatus, stdout |-> ""],
                     Pending, FALSE)

executeThrowsOnPathError(args, live, silent, configFile, config, env, binaryPath, pathOutcome) ==
    LET mode == IF live = Bool(TRUE) THEN "live" ELSE "buffered"
        output == IF silent THEN "ignore" ELSE "inherit"
        stdio == IF mode = "live" THEN <<"ignore", output, output>>
                 ELSE <<"pipe", "pipe", "pipe">>
        inp == [args |-> args, live |-> live, silent |-> silent,
                configFile |-> configFile, config |-> config]
    IN IF pathOutcome.kind = "throw"
       THEN [ExecCall("settled", inp, ChildEnv(env, binaryPath, configFile, config),
                      ChildArgs(args, config), mode, NoChild, Pending, FALSE)
                EXCEPT !.threw = TRUE]
       ELSE ExecCall("running", inp, ChildEnv(env, binaryPath, configFile, config),
                     ChildArgs(args, config), mode,
                     [state |-> "running", path |-> pathOutcome.path, stdio |-> stdio,
                      status |-> NoStatus, stdout |-> ""],
                     Pending, FALSE)

\* The body of execute up to the return of the promise.
execute(args, live, silent, configFile, config, env, binaryPath, pathOutcome) ==
    LET mode == IF live = Bool(TRUE) THEN "live" ELSE "buffered"
        output == IF silent THEN "ignore" ELSE "inherit"
        stdio == IF mode = "live" THEN <<"ignore", output, output>>
                 ELSE <<"pipe", "pipe", "pipe">>
        inp == [args |-> args, live |-> live, silent |-> silent,
                configFile |-> configFile, config |-> config]
    IN IF pathOutcome.kind = "throw"
       THEN ExecCall("settled", inp, ChildEnv(env, binaryPath, configFile, config),
                     ChildArgs(args, config), mode, NoChild,
                     Rejected(pathOutcome.error, 0), FALSE)
       ELSE ExecCall("running", inp, ChildEnv(env, binaryPath, configFile, config),
                     ChildArgs(args, config), mode,
                     [state |-> "running", path |-> pathOutcome.path, stdio |-> stdio,
                      status |-> NoStatus, stdout |-> ""],
                     Pending, FALSE)

\* The config objects: every field undefined, empty or set; headers absent or a mapping.
FieldValue(f) ==
    CASE f = "configFile" -> "gsoc2.properties"
      [] f = "url" -> "https://x"
      [] f = "authToken" -> "t"
      [] f = "apiKey" -> "k"
      [] f = "dsn" -> "https://dsn"
      [] f = "org" -> "my-org"
      [] f = "project" -> "my-project"
      [] f = "vcsRemote" -> "origin"
      [] OTHER -> "x-header: 1"

FieldSettings ==
    {g \in [ConfigFields \cup {"configFile"} -> {"unset", "empty", "set"}] :
        Cardinality({f \in DOMAIN g : g[f] # "unset"}) <= MaxConfigFields}

SettingValue(g, f) ==
    IF g[f] = "unset" THEN UNDEFINED ELSE IF g[f] = "empty" THEN "" ELSE FieldValue(f)

HeaderMaps == {Undef, Obj(<<Prop("X-A", "1"), Prop("X-B", "2")>>)}

ConfigOf(g, headers) ==
    [url |-> SettingValue(g, "url"), authToken |-> SettingValue(g, "authToken"),
     apiKey |-> SettingValue(g, "apiKey"), dsn |-> SettingValue(g, "dsn"),
     org |-> SettingValue(g, "org"), project |-> SettingValue(g, "project"),
     vcsRemote |-> SettingValue(g, "vcsRemote"),
     customHeader |-> SettingValue(g, "customHeader"), headers |-> headers]

ArgLists == {<<>>, <<Str("releases"), Str("new")>>}
LiveValues == {Bool(TRUE), Bool(FALSE), Null}
ExitStatuses == {0, 2}
\* What a child may have written to its standard output when it exits.
Outputs == {"1.0.0\n", "  padded  \n"}

\* The inherited environments: nothing set, or every variable set by the parent.
InheritedEnvs == {[n \in EnvNames |-> UNDEFINED], [n \in EnvNames |-> "inherited"]}

ExecIdle ==
    ExecCall("none",
             [args |-> <<>>, live |-> Undef, silent |-> FALSE, configFile |-> UNDEFINED,
              config |-> ConfigOf([f \in ConfigFields \cup {"configFile"} |-> "unset"], Undef)],
             [n \in EnvNames \cup {"GSOC2_BINARY_PATH"} |-> UNDEFINED], <<>>, "none",
             NoChild, Pending, FALSE)

InitExec ==
    /\ procEnv \in InheritedEnvs
    /\ execResult = ExecIdle

\* No execute call is made: the environment is empty and stays so.
InitExecIdle ==
    /\ procEnv = [n \in EnvNames |-> UNDEFINED]
    /\ execResult = ExecIdle

CallExecute ==
    /\ execResult.phase = "none"
    /\ \E args \in ArgLists, live \in LiveValues, silent \in BOOLEAN,
          g \in FieldSettings, headers \in HeaderMaps :
         execResult' = execute(args, live, silent, SettingValue(g, "configFile"),
                               ConfigOf(g, headers), procEnv, envBinaryPath,
                               getPath(mockedBinaryPath, envBinaryPath, platform, arch,
                                       fallbackExists, installed))
    /\ UNCHANGED <<platform, arch, envBinaryPath, mockedBinaryPath, fallbackExists,
                   installed, pathResult, distResult, serResult, procEnv, calls, relResult>>

\* String.prototype.trim on the outputs above.
Trimmed(stdout) == IF stdout = "1.0.0\n" THEN "1.0.0" ELSE "padded"

OnExitTrimsStdout(call, status, stdout) ==
    [call EXCEPT
        !.phase = "settled",
        !.child.state = "exited",
        !.child.status = status,
        !.child.stdout = stdout,
        !.promise = IF call.mode = "live" THEN Resolved(Undef)
                    ELSE IF status = 0 THEN Resolved(Str(Trimmed(stdout)))
                    ELSE Rejected("Command failed", status)]

OnExitLiveRejectsOnFailure(call, status, stdout) ==
    [call EXCEPT
        !.phase = "settled",
        !.child.state = "exited",
        !.child.status = status,
        !.child.stdout = stdout,
        !.promise = IF status # 0 THEN Rejected("Command failed", status)
                    ELSE IF call.mode = "live" THEN Resolved(Undef)
                    ELSE Resolved(Str(stdout))]

\* pid.on('exit', () => resolve()) in live mode; the execFile callback in buffered mode,
\* whose err is set when the status is not zero and carries it as err.code.
OnExit(call, status, stdout) ==
    [call EXCEPT
        !.phase = "settled",
        !.child.state = "exited",
        !.child.status = status,
        !.child.stdout = stdout,
        !.promise = IF call.mode = "live" THEN Resolved(Undef)
                    ELSE IF status = 0 THEN Resolved(Str(stdout))
                    ELSE Rejected("Command failed", status)]

\* The binary cannot be started: execFile's callback gets the error; a spawned child
\* emits 'error', for which execute registers no listener, and never emits 'exit'.
OnSpawnError(call) ==
    IF call.mode = "live"
    THEN [call EXCEPT !.phase = "failed", !.child.state = "failed", !.uncaught = TRUE]
    ELSE [call EXCEPT !.phase = "settled", !.child.state = "failed",
                      !.promise = Rejected("ENOENT", -2)]

ChildExits ==
    /\ execResult.phase = "running"
    /\ \E status \in ExitStatuses, stdout \in Outputs :
         execResult' = OnExit(execResult, status, stdout)
    /\ UNCHANGED <<platform, arch, envBinaryPath, mockedBinaryPath, fallbackExists,
                   installed, pathResult, distResult, serResult, procEnv, calls, relResult>>

ChildFailsToStart ==
    /\ execResult.phase = "running"
    /\ execResult' = OnSpawnError(execResult)
    /\ UNCHANGED <<platform, arch, envBinaryPath, mockedBinaryPath, fallbackExists,
                   installed, pathResult, distResult, serResult, procEnv, calls, relResult>>

\* The caller has seen the outcome; the next call starts afresh.
ExecCallerContinues ==
    /\ execResult.phase \in {"settled", "failed"}
    /\ execResult' = ExecIdle
    /\ UNCHANGED <<platform, arch, envBinaryPath, mockedBinaryPath, fallbackExists,
                   installed, pathResult, distResult, serResult, procEnv, calls, relResult>>

\* The values a caller may pass as live.
AnyLiveValues ==
    {Bool(TRUE), Bool(FALSE), Null, Undef, Num(0), Num(1), Str(""), Str("live"),
     Obj(<<>>)}

\* The calls that give no config value: only configFile varies.
PlainSettings == {g \in FieldSettings : \A f \in ConfigFields : g[f] = "unset"}

\* execute called with any value as live.
CallExecuteAnyLive ==
    /\ execResult.phase = "none"
    /\ \E args \in ArgLists, live \in AnyLiveValues, silent \in BOOLEAN,
          g \in PlainSettings :
         execResult' = execute(args, live, silent, SettingValue(g, "configFile"),
                               ConfigOf(g, Undef), procEnv, envBinaryPath,
                               getPath(mockedBinaryPath, envBinaryPath, platform, arch,
                                       fallbackExists, installed))
    /\ UNCHANGED <<platform, arch, envBinaryPath, mockedBinaryPath, fallbackExists,
                   installed, pathResult, distResult, serResult, procEnv, calls, relResult>>

\* No calls are in flight together, and no releases command is run.
InitCallsIdle == calls = <<>>
RelIdle == [op |-> "none", version |-> "", options |-> Undef, include |-> "",
            args |-> <<>>, live |-> Undef]
InitRelIdle == relResult = RelIdle

(***************************************************************************)
(* The state machine of path resolution.                                   *)
(***************************************************************************)
InstalledSets == {s \in SUBSET DistSet : Cardinality(s) <= MaxInstalled}

InitPath ==
    /\ platform \in Platforms
    /\ arch \in Archs
    /\ envBinaryPath = UNDEFINED
    /\ mockedBinaryPath = UNDEFINED
    /\ fallbackExists \in BOOLEAN
    /\ installed \in InstalledSets
    /\ pathResult = [call |-> [mock |-> UNDEFINED, env |-> UNDEFINED, fallback |-> FALSE],
                     out |-> NoCall]
    /\ distResult = Dist("", "")

\* The caller's environment sets or clears GSOC2_BINARY_PATH.
SetEnvBinaryPath ==
    /\ \E v \in EnvPathValues : envBinaryPath' = v
    /\ UNCHANGED <<platform, arch, mockedBinaryPath, fallbackExists, installed,
                   pathResult, distResult, serResult, procEnv, execResult, calls, relResult>>

mockBinaryPath ==
    /\ \E mockPath \in MockPathValues : mockedBinaryPath' = mockPath
    /\ UNCHANGED <<platform, arch, envBinaryPath, fallbackExists, installed,
                   pathResult, distResult, serResult, procEnv, execResult, calls, relResult>>

\* The install script writes (or a cleanup removes) the fallback binary.
SetFallback ==
    /\ fallbackExists' = ~fallbackExists
    /\ UNCHANGED <<platform, arch, envBinaryPath, mockedBinaryPath, installed,
                   pathResult, distResult, serResult, procEnv, execResult, calls, relResult>>

CallGetPathCached ==
    /\ pathResult' = [call |-> [mock |-> mockedBinaryPath, env |-> envBinaryPath,
                                fallback |-> fallbackExists],
                      out |-> IF pathResult.out.kind = "return" THEN pathResult.out
                              ELSE getPath(mockedBinaryPath, envBinaryPath, platform, arch,
                                           fallbackExists, installed)]
    /\ UNCHANGED <<platform, arch, envBinaryPath, mockedBinaryPath, fallbackExists,
                   installed, distResult, serResult, procEnv, execResult, calls, relResult>>

\* A caller invokes getPath(); the outcome is kept with what the call saw.
CallGetPath ==
    /\ pathResult' = [call |-> [mock |-> mockedBinaryPath, env |-> envBinaryPath,
                                fallback |-> fallbackExists],
                      out |-> getPath(mockedBinaryPath, envBinaryPath, platform, arch,
                                      fallbackExists, installed)]
    /\ UNCHANGED <<platform, arch, envBinaryPath, mockedBinaryPath, fallbackExists,
                   installed, distResult, serResult, procEnv, execResult, calls, relResult>>

\* A caller invokes the exported getDistributionForThisPlatform().
CallGetDistribution ==
    /\ distResult' = getDistributionForThisPlatform(platform, arch)
    /\ UNCHANGED <<platform, arch, envBinaryPath, mockedBinaryPath, fallbackExists,
                   installed, pathResult, serResult, procEnv, execResult, calls, relResult>>

(***************************************************************************)
(* Path resolution: the specification and its properties.                  *)
(***************************************************************************)
NextPath ==
    \/ SetEnvBinaryPath
    \/ mockBinaryPath
    \/ SetFallback
    \/ CallGetPath
    \/ CallGetDistribution

InitPathSpec == InitPath /\ InitSer /\ InitExecIdle /\ InitCallsIdle /\ InitRelIdle

SpecPath == InitPathSpec /\ [][NextPath]_vars

\* The platforms the unsupported-platform message lists as supported.
SupportedPairs ==
    ({"darwin"} \X Archs)
    \cup ({"linux", "freebsd"} \X {"x64", "x86", "ia32", "arm64", "arm"})
    \cup ({"win32"} \X {"x64", "x86", "ia32"})

Supported == <<platform, arch>> \in SupportedPairs

Called == pathResult.out.kind # "none"
SawMock == pathResult.call.mock # UNDEFINED
SawEnv == Truthy(pathResult.call.env)

\* C1 as stated: a non-empty GSOC2_BINARY_PATH is returned verbatim by getPath even
\* when a substitution was set through mockBinaryPath; the substitution is returned
\* only when no override is set.
C1_EnvOverrideWins ==
    Called =>
        /\ SawEnv => pathResult.out = Returned(LiteralPath(pathResult.call.env), <<>>)
        /\ (SawMock /\ pathResult.out = Returned(LiteralPath(pathResult.call.mock), <<>>)
              /\ pathResult.call.mock # pathResult.call.env)
           => ~SawEnv

\* C1 amended: getPath returns the substitution whenever one is set (any value but
\* undefined), also when GSOC2_BINARY_PATH is set; the non-empty override is returned
\* verbatim when no substitution is set.
C1_MockWins ==
    Called =>
        /\ SawMock => pathResult.out = Returned(LiteralPath(pathResult.call.mock), <<>>)
        /\ (~SawMock /\ SawEnv)
           => pathResult.out = Returned(LiteralPath(pathResult.call.env), <<>>)

C1_Witness ==
    /\ Called /\ SawMock /\ SawEnv
    /\ pathResult.out.path = LiteralPath(pathResult.call.mock)
    /\ pathResult.call.mock # pathResult.call.env

\* C2 as stated: on an unsupported (OS, architecture) pair getPath returns a path,
\* not the unsupported-platform error, whenever the override is set, a substitution
\* is set or the fallback binary file exists.
C2_StepsOneToThreeApply ==
    (Called /\ ~Supported /\ (SawEnv \/ SawMock \/ pathResult.call.fallback))
        => /\ pathResult.out.kind = "return"
           /\ pathResult.out.path \in
                {LiteralPath(pathResult.call.env), LiteralPath(pathResult.call.mock),
                 getFallbackBinaryPath(platform)}

\* C2 amended: on an unsupported pair a substitution or a non-empty override is
\* returned; the fallback file is not consulted, so with neither set getPath fails
\* with the unsupported-platform error whether or not the fallback file exists.
C2_OverridesApplyFallbackDoesNot ==
    (Called /\ ~Supported) =>
        /\ SawMock => pathResult.out = Returned(LiteralPath(pathResult.call.mock), <<>>)
        /\ (~SawMock /\ SawEnv)
           => pathResult.out = Returned(LiteralPath(pathResult.call.env), <<>>)
        /\ (~SawMock /\ ~SawEnv)
           => pathResult.out = Thrown("UnsupportedPlatform", "", "", <<>>)

C2_Witness ==
    /\ Called /\ ~Supported /\ ~SawMock /\ ~SawEnv
    /\ pathResult.call.fallback
    /\ pathResult.out.error = "UnsupportedPlatform"

\* C3: on an unsupported pair, when no override, no substitution and no fallback file
\* yields a path, getPath fails with the unsupported-platform error, and no call on an
\* unsupported pair ever attempts a companion-package lookup.
C3_UnsupportedNeverLooksUp ==
    (Called /\ ~Supported) =>
        /\ pathResult.out.lookups = <<>>
        /\ (~SawMock /\ ~SawEnv /\ ~pathResult.call.fallback)
           => (pathResult.out.kind = "throw" /\ pathResult.out.error = "UnsupportedPlatform")

C3_Witness ==
    /\ Called /\ ~Supported /\ ~SawMock /\ ~SawEnv /\ ~pathResult.call.fallback
    /\ installed # {}
    /\ pathResult.out.error = "UnsupportedPlatform"
    /\ pathResult.out.lookups = <<>>

\* The subpaths of the table that carry the Windows executable suffix.
EndsInExe(subpath) == subpath = "bin/gsoc2-cli.exe"

\* The documented platform table.
DocumentedPackage(plat, ar) ==
    CASE plat = "darwin" -> "@gsoc2/cli-darwin"
      [] plat \in {"linux", "freebsd"} /\ ar = "x64" -> "@gsoc2/cli-linux-x64"
      [] plat \in {"linux", "freebsd"} /\ ar \in {"x86", "ia32"} -> "@gsoc2/cli-linux-i686"
      [] plat \in {"linux", "freebsd"} /\ ar = "arm64" -> "@gsoc2/cli-linux-arm64"
      [] plat \in {"linux", "freebsd"} /\ ar = "arm" -> "@gsoc2/cli-linux-arm"
      [] plat = "win32" /\ ar = "x64" -> "@gsoc2/cli-win32-x64"
      [] plat = "win32" /\ ar \in {"x86", "ia32"} -> "@gsoc2/cli-win32-i686"
      [] OTHER -> UNDEFINED

\* C4: getDistributionForThisPlatform maps each supported pair to its documented
\* package, a member of BINARY_DISTRIBUTIONS; the subpath ends in .exe exactly on
\* win32; every other pair has an undefined packageName.
C4_DistributionTable ==
    distResult # Dist("", "") =>
        /\ distResult.packageName = DocumentedPackage(platform, arch)
        /\ EndsInExe(distResult.subpath) <=> platform = "win32"
        /\ Supported => distResult \in DistSet
        /\ ~Supported => distResult.packageName = UNDEFINED
        /\ Supported =>
             Cardinality({i \in DOMAIN BINARY_DISTRIBUTIONS :
                            BINARY_DISTRIBUTIONS[i] = distResult}) = 1

C4_Witness ==
    /\ distResult = Dist("@gsoc2/cli-win32-i686", "bin/gsoc2-cli.exe")
    /\ arch = "ia32"

\* The call reached the companion-package lookup and the lookup failed.
LookupFailed ==
    /\ Called /\ Supported /\ ~SawMock /\ ~SawEnv /\ ~pathResult.call.fallback
    /\ Dist(DocumentedPackage(platform, arch),
            IF platform = "win32" THEN "bin/gsoc2-cli.exe" ELSE "bin/gsoc2-cli")
         \notin installed

\* C5: a failed companion-package lookup ends in exactly one of two errors: with some
\* distribution of the table installed, the error names an installed package and the
\* package the platform needs; with none installed, the error says the optional
\* dependencies are missing. A returned package path is the platform's own package.
C5_LookupFailureErrors ==
    /\ LookupFailed =>
        /\ pathResult.out.kind = "throw"
        /\ installed # {} =>
             /\ pathResult.out.error = "WrongPlatformPackage"
             /\ pathResult.out.installedPkg \in {d.packageName : d \in installed}
             /\ pathResult.out.neededPkg = DocumentedPackage(platform, arch)
             /\ pathResult.out.installedPkg # pathResult.out.neededPkg
        /\ installed = {} =>
             /\ pathResult.out.error = "NoOptionalDependencies"
             /\ pathResult.out.installedPkg = ""
    /\ (Called /\ pathResult.out.kind = "return" /\ pathResult.out.path.root = "node_modules")
        => /\ Supported
           /\ pathResult.out.path.pkg = DocumentedPackage(platform, arch)

C5_Witness ==
    /\ LookupFailed
    /\ Cardinality(installed) = 2
    /\ pathResult.out.error = "WrongPlatformPackage"

C5_WitnessNone ==
    /\ LookupFailed
    /\ installed = {}
    /\ pathResult.out.error = "NoOptionalDependencies"

(***************************************************************************)
(* Serialization: the specification and its properties.                    *)
(***************************************************************************)
InitPathFixed ==
    /\ platform = "linux" /\ arch = "x64"
    /\ envBinaryPath = UNDEFINED /\ mockedBinaryPath = UNDEFINED
    /\ fallbackExists = FALSE /\ installed = {}
    /\ pathResult = [call |-> [mock |-> UNDEFINED, env |-> UNDEFINED, fallback |-> FALSE],
                     out |-> NoCall]
    /\ distResult = Dist("", "")

NextSer == CallSerializeOptions \/ CallPrepareCommand \/ SerCallerContinues

InitSerSpec == InitPathFixed /\ InitSer /\ InitExecIdle /\ InitCallsIdle /\ InitRelIdle

SpecSer == InitSerSpec /\ [][NextSer]_vars

SerializeReturned == serResult.op = "serializeOptions" /\ serResult.out.kind = "return"
SerSchema == serResult.schema.o
SerOptions == serResult.options.o
Present(v) == v # Undef /\ v # Null

\* The tokens of each schema entry serialized on its own, concatenated in schema order.
RECURSIVE TokensInSchemaOrder(_, _)
TokensInSchemaOrder(schema, options) ==
    IF Len(schema) = 0 THEN <<>>
    ELSE serializeOptions(<<Head(schema)>>, options).tokens
         \o TokensInSchemaOrder(Tail(schema), options)

\* The properties of an object whose keys the schema declares, in the object's order.
RECURSIVE OnlySchemaKeys(_, _)
OnlySchemaKeys(schema, options) ==
    IF Len(options) = 0 THEN <<>>
    ELSE (IF \E i \in DOMAIN schema : schema[i].key = Head(options).key
          THEN <<Head(options)>> ELSE <<>>)
         \o OnlySchemaKeys(schema, Tail(options))

\* C6: the output of serializeOptions is the concatenation, in the schema's key order,
\* of each option's tokens; an undefined or null value contributes nothing, and keys of
\* options that the schema does not declare contribute nothing.
C6_SchemaOrderConcatenation ==
    SerializeReturned =>
        /\ serResult.out.value = Arr(TokensInSchemaOrder(SerSchema, SerOptions))
        /\ \A i \in DOMAIN SerSchema :
             ~Present(Get(SerOptions, SerSchema[i].key))
               => serializeOptions(<<SerSchema[i]>>, SerOptions) = SerReturned(<<>>)
        /\ serResult.out.value
             = Arr(serializeOptions(SerSchema, OnlySchemaKeys(SerSchema, SerOptions)).tokens)
        /\ (\A i \in DOMAIN SerSchema : ~Present(Get(SerOptions, SerSchema[i].key)))
             => serResult.out.value = Arr(<<>>)

C6_Witness ==
    /\ SerializeReturned
    /\ Len(SerSchema) = 2 /\ Len(SerOptions) = 2
    /\ SerSchema[1].key = SerOptions[2].key /\ SerSchema[2].key = SerOptions[1].key
    /\ SerSchema[1].key = "yes"
    /\ serResult.out.value = Arr(<<Str("--yes"), Str("--path"), Str("b"), Str("--path"),
                                   Str("1"), Str("--path"), Str("a")>>)

C6_WitnessUnknownKey ==
    /\ SerializeReturned
    /\ \E i \in DOMAIN SerOptions : SerOptions[i].key = "extra"
    /\ \E i \in DOMAIN SerOptions : SerOptions[i].value = Null
    /\ serResult.out.value = Arr(<<>>)

\* The serialization of the schema entries before entry i returned.
PrefixReturns(i) == serializeOptions(SubSeq(SerSchema, 1, i - 1), SerOptions).kind = "return"
PrefixTokens(i) == serializeOptions(SubSeq(SerSchema, 1, i - 1), SerOptions).tokens
SuffixTokens(i) ==
    serializeOptions(SubSeq(SerSchema, i + 1, Len(SerSchema)), SerOptions).tokens

\* [F, String(e1), ..., F, String(en)]
FlagValuePairs(F, es) ==
    [j \in 1..(2 * Len(es)) |-> IF j % 2 = 1 THEN F ELSE String(es[j \div 2])]

\* The array rule for entry i, F being the flag the entry is said to declare.
ArrayRule(i, F) ==
    LET v == Get(SerOptions, SerSchema[i].key)
    IN /\ (serResult.out.kind = "return" /\ v.t = "array")
          => serResult.out.value
               = Arr(PrefixTokens(i) \o FlagValuePairs(F, v.a) \o SuffixTokens(i))
       /\ (Present(v) /\ v.t # "array" /\ PrefixReturns(i))
          => /\ serResult.out.kind = "throw"
             /\ serResult.out.error = "should be an array"
             /\ serResult.out.option = SerSchema[i].key

\* C7 as stated: an option declared as {type:'array', flag:F} contributes
\* [F, String(e1), ..., F, String(en)] for an array value, and a non-array, non-null
\* value makes serializeOptions throw an error naming the option.
C7_ArrayDeclaredWithFlag ==
    serResult.op = "serializeOptions" =>
        \A i \in DOMAIN SerSchema :
            (SerSchema[i].type = "array" /\ SerSchema[i].flag # Undef)
                => ArrayRule(i, SerSchema[i].flag)

\* C7 amended: the flag of an option is its schema property param: an option declared
\* as {type:'array', param:F} contributes [F, String(e1), ..., F, String(en)] in array
\* order for an array value, and a non-array, non-null value makes serializeOptions
\* throw an error naming the option.
C7_ArrayDeclaredWithParam ==
    serResult.op = "serializeOptions" =>
        \A i \in DOMAIN SerSchema :
            (SerSchema[i].type = "array" /\ SerSchema[i].param # Undef)
                => ArrayRule(i, SerSchema[i].param)

C7_Witness ==
    /\ SerializeReturned
    /\ SerSchema = <<Entry("paths", "array", Str("--path"), Undef, Undef, Undef)>>
    /\ Get(SerOptions, "paths") = Arr(<<Str("b"), Num(1), Str("a")>>)
    /\ serResult.out.value = Arr(<<Str("--path"), Str("b"), Str("--path"), Str("1"),
                                   Str("--path"), Str("a")>>)

C7_WitnessThrow ==
    /\ serResult.op = "serializeOptions"
    /\ \E i \in DOMAIN SerSchema :
         SerSchema[i].type = "array" /\ SerSchema[i].param # Undef
         /\ Get(SerOptions, SerSchema[i].key) = Str("a")
    /\ serResult.out.kind = "throw" /\ serResult.out.option = "paths"

\* C8: a boolean option contributes [flag] for true when a flag (the schema property
\* param) is declared, [invertedFlag] for false when an inverted flag (invertedParam)
\* is declared, and nothing otherwise; never both, never a value token; a non-boolean,
\* non-null value makes serializeOptions throw a schema validation error.
C8_BooleanFlags ==
    serResult.op = "serializeOptions" =>
        \A i \in DOMAIN SerSchema :
            SerSchema[i].type = "boolean" =>
                LET v == Get(SerOptions, SerSchema[i].key)
                    flag == SerSchema[i].param
                    invertedFlag == SerSchema[i].invertedParam
                    contributes(toks) ==
                        serResult.out.value
                            = Arr(PrefixTokens(i) \o toks \o SuffixTokens(i))
                IN /\ (serResult.out.kind = "return" /\ v = Bool(TRUE) /\ flag # Undef)
                      => contributes(<<flag>>)
                   /\ (serResult.out.kind = "return" /\ v = Bool(FALSE)
                         /\ invertedFlag # Undef)
                      => contributes(<<invertedFlag>>)
                   /\ (serResult.out.kind = "return" /\ v = Bool(FALSE)
                         /\ invertedFlag = Undef)
                      => contributes(<<>>)
                   /\ (serResult.out.kind = "return" /\ v = Bool(TRUE) /\ flag = Undef)
                      => contributes(<<>>)
                   /\ (Present(v) /\ v.t # "boolean" /\ PrefixReturns(i))
                      => /\ serResult.out.kind = "throw"
                         /\ serResult.out.error = "should be a bool"
                         /\ serResult.out.option = SerSchema[i].key

C8_Witness ==
    /\ SerializeReturned
    /\ SerSchema = <<Entry("yes", "boolean", Str("--yes"), Str("--no"), Undef, Undef)>>
    /\ Get(SerOptions, "yes") = Bool(FALSE)
    /\ serResult.out.value = Arr(<<Str("--no")>>)

\* The command as a list of tokens: a literal string is one token.
CommandTokens(command) == IF command.t = "string" THEN <<command>> ELSE command.a

\* C9: prepareCommand returns the command tokens followed by exactly
\* serializeOptions(schema, options), for a literal string command and for a sequence
\* of subcommand tokens; with an absent or empty schema/options it returns exactly the
\* command tokens.
C9_CommandThenOptions ==
    (serResult.op = "prepareCommand" /\ serResult.out.kind = "return") =>
        /\ serResult.out.value
             = Arr(CommandTokens(serResult.command)
                   \o serializeOptions(OrEmpty(serResult.schema),
                                       OrEmpty(serResult.options)).tokens)
        /\ (OrEmpty(serResult.schema) = <<>> \/ OrEmpty(serResult.options) = <<>>)
             => serResult.out.value = Arr(CommandTokens(serResult.command))

(***************************************************************************)
(* execute: the specification and its properties.                          *)
(***************************************************************************)
\* The platforms and substitutions execute runs under: a usable path, an unsupported
\* platform, a supported platform without its companion package.
InitExecPath ==
    /\ platform \in {"linux", "sunos"} /\ arch = "x64"
    /\ envBinaryPath \in {UNDEFINED, "/opt/env/gsoc2-cli"}
    /\ mockedBinaryPath = UNDEFINED
    /\ fallbackExists = FALSE /\ installed = {}
    /\ pathResult = [call |-> [mock |-> UNDEFINED, env |-> UNDEFINED, fallback |-> FALSE],
                     out |-> NoCall]
    /\ distResult = Dist("", "")

NextExec == CallExecute \/ ChildExits \/ ChildFailsToStart \/ ExecCallerContinues

InitExecSpec == InitExecPath /\ InitSer /\ InitExec /\ InitCallsIdle /\ InitRelIdle

SpecExec == InitExecSpec /\ [][NextExec]_vars

\* The documented variable of each configuration value.
DocumentedVariable(f) ==
    CASE f = "configFile" -> "GSOC2_PROPERTIES"
      [] f = "url" -> "GSOC2_URL"
      [] f = "authToken" -> "GSOC2_AUTH_TOKEN"
      [] f = "apiKey" -> "GSOC2_API_KEY"
      [] f = "dsn" -> "GSOC2_DSN"
      [] f = "org" -> "GSOC2_ORG"
      [] f = "project" -> "GSOC2_PROJECT"
      [] f = "vcsRemote" -> "GSOC2_VCS_REMOTE"
      [] OTHER -> "CUSTOM_HEADER"

\* The value the call was given for a configuration field.
Given(f) ==
    IF f = "configFile" THEN execResult.in.configFile ELSE execResult.in.config[f]
\* A field is provided when its value is a non-empty string.
Provided(f) == Truthy(Given(f))

\* process.env as the call found it.
Inherited(n) == IF n = "GSOC2_BINARY_PATH" THEN envBinaryPath ELSE procEnv[n]

\* C10: the child environment is the process environment overlaid with the variable of
\* each provided configuration value and nothing else: a provided field sets its
\* documented variable to its value, every other variable keeps its inherited value.
C10_ChildEnvOverlay ==
    execResult.phase # "none" =>
        /\ DOMAIN execResult.env = EnvNames \cup {"GSOC2_BINARY_PATH"}
        /\ \A f \in ConfigFields \cup {"configFile"} :
             Provided(f) => execResult.env[DocumentedVariable(f)] = Given(f)
        /\ \A n \in DOMAIN execResult.env :
             (\A f \in ConfigFields \cup {"configFile"} :
                 Provided(f) => DocumentedVariable(f) # n)
               => execResult.env[n] = Inherited(n)

C10_Witness ==
    /\ execResult.phase # "none"
    /\ {f \in ConfigFields \cup {"configFile"} : Provided(f)} = {"url", "authToken"}
    /\ procEnv["GSOC2_URL"] = "inherited"
    /\ execResult.env["GSOC2_URL"] = "https://x"
    /\ execResult.env["GSOC2_AUTH_TOKEN"] = "t"
    /\ execResult.env["GSOC2_API_KEY"] = "inherited"
    /\ execResult.env["PATH"] = "inherited"

\* The ('--header', 'key:value') pairs of a headers mapping, entry by entry in its order.
HeaderPairs(h) ==
    [i \in 1..(2 * Len(h)) |->
        IF i % 2 = 1 THEN Str("--header")
        ELSE Pieces(<<h[i \div 2].key, ":", h[i \div 2].value>>)]

HeaderTokens(argv) == {i \in DOMAIN argv : argv[i] = Str("--header")}

\* C11: customHeader overrides headers. When customHeader is provided the child gets
\* CUSTOM_HEADER set to it and the caller's args with no '--header' token added, whether
\* or not headers is given; when only headers is given the child's arguments are one
\* ('--header', 'key:value') pair per entry, in the mapping's order, followed by the
\* caller's args unchanged, and CUSTOM_HEADER keeps its inherited value.
C11_CustomHeaderOverridesHeaders ==
    execResult.phase # "none" =>
        /\ Provided("customHeader") =>
              /\ execResult.env["CUSTOM_HEADER"] = Given("customHeader")
              /\ execResult.argv = execResult.in.args
              /\ HeaderTokens(execResult.argv) = {}
        /\ (~Provided("customHeader") /\ Given("headers") # Undef) =>
              /\ execResult.argv = HeaderPairs(Given("headers").o) \o execResult.in.args
              /\ execResult.env["CUSTOM_HEADER"] = Inherited("CUSTOM_HEADER")
        /\ (~Provided("customHeader") /\ Given("headers") = Undef) =>
              execResult.argv = execResult.in.args

\* Both customHeader and headers are given, and the child's arguments are the caller's.
C11_Witness ==
    /\ execResult.phase # "none"
    /\ Provided("customHeader")
    /\ Given("headers") # Undef
    /\ execResult.in.args # <<>>
    /\ execResult.argv = execResult.in.args
    /\ execResult.env["CUSTOM_HEADER"] = "x-header: 1"

\* Only headers is given: two pairs come before the caller's two arguments.
C11_WitnessHeaders ==
    /\ execResult.phase # "none"
    /\ Given("customHeader") = UNDEFINED
    /\ Given("headers") # Undef
    /\ procEnv["CUSTOM_HEADER"] = "inherited"
    /\ execResult.argv = <<Str("--header"), Pieces(<<"X-A", ":", "1">>),
                           Str("--header"), Pieces(<<"X-B", ":", "2">>),
                           Str("releases"), Str("new")>>

(***************************************************************************)
(* execute: the mode, the child process and the promise.                   *)
(***************************************************************************)
\* The installations a call may find: a supported or an unsupported platform, the
\* override set or not, the fallback binary and the platform package present or not.
InitRunPath ==
    /\ platform \in {"linux", "sunos"} /\ arch = "x64"
    /\ envBinaryPath \in {UNDEFINED, "/opt/env/gsoc2-cli"}
    /\ mockedBinaryPath = UNDEFINED
    /\ fallbackExists \in BOOLEAN
    /\ installed \in {{}, {getDistributionForThisPlatform("linux", "x64")}}
    /\ pathResult = [call |-> [mock |-> UNDEFINED, env |-> UNDEFINED, fallback |-> FALSE],
                     out |-> NoCall]
    /\ distResult = Dist("", "")

NextRun == CallExecuteAnyLive \/ ChildExits \/ ChildFailsToStart \/ ExecCallerContinues

InitRunSpec == InitRunPath /\ InitSer /\ InitExecIdle /\ InitCallsIdle /\ InitRelIdle

SpecRun == InitRunSpec /\ [][NextRun]_vars

ExecCalled == execResult.phase # "none"
\* What getPath() gives the call: the installation does not change while it runs.
PathOutcome ==
    getPath(mockedBinaryPath, envBinaryPath, platform, arch, fallbackExists, installed)
BufferedCall == ExecCalled /\ ~TruthyValue(execResult.in.live)
LiveCall == ExecCalled /\ execResult.in.live = Bool(TRUE)

\* C12: a buffered call (live falsy) rejects if and only if the child was not started
\* or exited with a status other than zero; the rejection of a failed exit carries the
\* exit status as its code (status 2 gives code 2); otherwise the call resolves with
\* the captured standard output as the child wrote it, not trimmed.
C12_BufferedOutcome ==
    BufferedCall =>
        /\ execResult.mode = "buffered"
        /\ execResult.phase \in {"running", "settled"}
        /\ execResult.phase = "running" <=> execResult.promise.state = "pending"
        /\ execResult.phase = "settled" =>
              /\ execResult.promise.state = "rejected"
                    <=> (execResult.child.state # "exited" \/ execResult.child.status # 0)
              /\ (execResult.child.state = "exited" /\ execResult.child.status # 0)
                    => execResult.promise.code = execResult.child.status
              /\ execResult.promise.state = "resolved"
                    => execResult.promise.value = Str(execResult.child.stdout)

\* A buffered call whose child exited with status 2 is rejected with code 2.
C12_Witness ==
    /\ BufferedCall
    /\ execResult.in.live = Null
    /\ execResult.child.state = "exited" /\ execResult.child.status = 2
    /\ execResult.promise.state = "rejected" /\ execResult.promise.code = 2

\* A buffered call whose child exited with status 0 resolves with the padded output.
C12_WitnessStdout ==
    /\ BufferedCall
    /\ execResult.child.state = "exited" /\ execResult.child.status = 0
    /\ execResult.promise = Resolved(Str("  padded  \n"))

\* A buffered call whose child could not be started is rejected.
C12_WitnessSpawn ==
    /\ BufferedCall
    /\ execResult.child.state = "failed"
    /\ execResult.promise.state = "rejected"

C13_WitnessRunning ==
    /\ LiveCall
    /\ execResult.child.state = "running"
    /\ execResult.promise.state = "pending"

\* The stdio a live child is spawned with: stdin closed, stdout and stderr inherited,
\* or discarded when silent is true.
LiveStdio(silent) ==
    IF silent THEN <<"ignore", "ignore", "ignore">> ELSE <<"ignore", "inherit", "inherit">>

\* C14 as stated: execute dispatches on the truthiness of live; every truthy value
\* (true, 1, a non-empty string, an object) runs live mode and every falsy value runs
\* buffered mode.
C14_TruthyRunsLive ==
    ExecCalled => (execResult.mode = "live" <=> TruthyValue(execResult.in.live))

\* C14: execute runs live mode exactly when live is the boolean true: the child is
\* spawned with stdin closed and stdout and stderr inherited, or discarded when silent
\* is true, and the promise resolves with no value. Every other value, truthy ones such
\* as 1, a non-empty string or an object included, runs buffered mode: the output is
\* captured and returned.
C14_OnlyTrueRunsLive ==
    ExecCalled =>
        /\ execResult.mode = "live" <=> execResult.in.live = Bool(TRUE)
        /\ execResult.mode = "buffered" <=> execResult.in.live # Bool(TRUE)
        /\ (execResult.mode = "live" /\ execResult.child.state # "none") =>
              /\ execResult.child.stdio = LiveStdio(execResult.in.silent)
              /\ execResult.promise.state = "resolved"
                    => execResult.promise.value = Undef
        /\ (execResult.mode = "buffered" /\ execResult.child.state # "none") =>
              /\ execResult.child.stdio = <<"pipe", "pipe", "pipe">>
              /\ execResult.promise.state = "resolved"
                    => execResult.promise.value = Str(execResult.child.stdout)

\* A call with live = 1 has run buffered and resolved with the captured output.
C14_Witness ==
    /\ ExecCalled
    /\ execResult.in.live = Num(1)
    /\ execResult.mode = "buffered"
    /\ execResult.child.state = "exited"
    /\ execResult.promise = Resolved(Str("1.0.0\n"))

\* A silent call with live = true has run live with its output discarded.
C14_WitnessLive ==
    /\ ExecCalled
    /\ execResult.in.live = Bool(TRUE) /\ execResult.in.silent
    /\ execResult.child.state = "exited"
    /\ execResult.child.stdio = <<"ignore", "ignore", "ignore">>
    /\ execResult.promise = Resolved(Undef)

\* C15: when the binary path cannot be resolved, execute returns a promise rejected
\* with the resolution error, in live and in buffered mode alike: the call does not
\* throw, no child process is spawned, and the path is resolved once, without a retry.
C15_ResolutionFailureRejects ==
    (ExecCalled /\ PathOutcome.kind = "throw") =>
        /\ ~execResult.threw
        /\ execResult.promise = Rejected(PathOutcome.error, 0)
        /\ execResult.child = NoChild
        /\ execResult.resolutions = 1
        /\ execResult.phase = "settled"

\* A live call on an unsupported platform is rejected without a child.
C15_Witness ==
    /\ ExecCalled
    /\ execResult.mode = "live"
    /\ PathOutcome.kind = "throw"
    /\ execResult.promise = Rejected("UnsupportedPlatform", 0)
    /\ execResult.child.state = "none"

\* A buffered call with no binary installed is rejected without a child.
C15_WitnessBuffered ==
    /\ ExecCalled
    /\ execResult.mode = "buffered"
    /\ execResult.promise = Rejected("NoOptionalDependencies", 0)
    /\ execResult.child.state = "none"

\* C19 as stated: once the child of a call has exited or failed to start, the promise
\* of the call is settled, in either mode; a live call whose child cannot be spawned
\* does not stay pending.
C19_SettlesOnceChildEnds ==
    execResult.child.state \in {"exited", "failed"}
        => execResult.promise.state \in {"resolved", "rejected"}

(***************************************************************************)
(* execute: several calls in flight together.                              *)
(***************************************************************************)
\* Largest number of execute calls in flight together.
MaxCalls == 2

\* The configs of the calls made together: nothing given, url given, headers given.
ConcConfigs ==
    {ConfigOf(g, headers) : <<g, headers>> \in
        {gh \in FieldSettings \X HeaderMaps :
            /\ \A f \in DOMAIN gh[1] : gh[1][f] # "unset" => (f = "url" /\ gh[1][f] = "set")
            /\ gh[2] # Undef => \A f \in DOMAIN gh[1] : gh[1][f] = "unset"}}

EnvAfterExecuteShared(env, configFile, config) ==
    [n \in EnvNames |-> ChildEnv(env, UNDEFINED, configFile, config)[n]]

\* process.env after a call: execute writes to its own copy, { ...process.env }.
EnvAfterExecute(env, configFile, config) == env

\* The caller's array after a call: args = [...headers, ...args] rebinds the parameter
\* to a new array.
ArgsAfterExecute(args, config) == args

\* One more call of execute while the earlier ones are in flight; at is what the call
\* found, argsAfter the caller's array once the call has returned its promise.
ConcExecute ==
    /\ Len(calls) < MaxCalls
    /\ \E args \in ArgLists, live \in {Bool(TRUE), Bool(FALSE)}, config \in ConcConfigs :
         LET outcome == getPath(mockedBinaryPath, envBinaryPath, platform, arch,
                                fallbackExists, installed)
         IN /\ calls' = Append(calls,
                  [call |-> execute(args, live, FALSE, UNDEFINED, config, procEnv,
                                    envBinaryPath, outcome),
                   at |-> [procEnv |-> procEnv, path |-> outcome],
                   argsAfter |-> ArgsAfterExecute(args, config)])
            /\ procEnv' = EnvAfterExecute(procEnv, UNDEFINED, config)
    /\ UNCHANGED <<platform, arch, envBinaryPath, mockedBinaryPath, fallbackExists,
                   installed, pathResult, distResult, serResult, execResult, relResult>>

\* The child of one of the calls exits.
ConcChildExits ==
    /\ \E i \in DOMAIN calls, status \in ExitStatuses :
         /\ calls[i].call.phase = "running"
         /\ calls' = [calls EXCEPT ![i].call = OnExit(@, status, "1.0.0\n")]
    /\ UNCHANGED <<platform, arch, envBinaryPath, mockedBinaryPath, fallbackExists,
                   installed, pathResult, distResult, serResult, procEnv, execResult,
                   relResult>>

\* The child of one of the calls cannot be started.
ConcChildFailsToStart ==
    /\ \E i \in DOMAIN calls :
         /\ calls[i].call.phase = "running"
         /\ calls' = [calls EXCEPT ![i].call = OnSpawnError(@)]
    /\ UNCHANGED <<platform, arch, envBinaryPath, mockedBinaryPath, fallbackExists,
                   installed, pathResult, distResult, serResult, procEnv, execResult,
                   relResult>>

NextConc == ConcExecute \/ ConcChildExits \/ ConcChildFailsToStart

InitConcSpec ==
    /\ InitExecPath /\ InitSer /\ InitExec /\ InitCallsIdle /\ InitRelIdle
    /\ platform = "linux"

SpecConc == InitConcSpec /\ [][NextConc]_vars

\* C16 as stated: each execute call creates exactly one child process.
C16_ExactlyOneChild ==
    \A i \in DOMAIN calls : calls[i].call.child.state # "none"

\* C16: each execute call creates at most one child process, exactly one when the
\* binary path resolves and none when resolution fails, and calls in flight together do
\* not interfere: each child's environment and arguments come from its own call's
\* inputs and the process environment alone, and neither the process environment nor
\* the caller's args array is modified.
C16_CallsIndependent ==
    \A i \in DOMAIN calls :
        LET c == calls[i].call
        IN /\ c.child.state # "none" <=> calls[i].at.path.kind = "return"
           /\ c.child.state # "none" => c.child.path = calls[i].at.path.path
           /\ c.env = ChildEnv(calls[i].at.procEnv, envBinaryPath, c.in.configFile,
                               c.in.config)
           /\ c.argv = ChildArgs(c.in.args, c.in.config)
           /\ calls[i].argsAfter = c.in.args
           /\ procEnv = calls[i].at.procEnv

\* Two calls in flight together with different inputs: the first gave a url and the
\* second headers, and each child has only its own call's settings.
C16_Witness ==
    /\ Len(calls) = 2
    /\ calls[1].call.phase = "running" /\ calls[2].call.phase = "running"
    /\ calls[1].call.in.config.url = "https://x"
    /\ calls[2].call.in.config.headers # Undef
    /\ calls[1].call.env["GSOC2_URL"] = "https://x"
    /\ calls[2].call.env["GSOC2_URL"] = "inherited"
    /\ HeaderTokens(calls[1].call.argv) = {}
    /\ HeaderTokens(calls[2].call.argv) # {}
    /\ calls[2].argsAfter = <<Str("releases"), Str("new")>>

(***************************************************************************)
(* getPath: what is kept between resolutions.                              *)
(***************************************************************************)
\* C17: the substitution set by mockBinaryPath is the only thing kept between
\* resolutions. A getPath call made while a substitution p is set returns p; a call
\* made after mockBinaryPath(undefined) resolves as if none had ever been set; and no
\* result is cached: whatever earlier calls returned, the outcome of a call is the
\* resolution of the override, the platform, the fallback file and the installed
\* packages as they are when the call is made.
C17_OnlySubstitutionIsKept ==
    Called =>
        pathResult.out =
            IF pathResult.call.mock # UNDEFINED
            THEN Returned(LiteralPath(pathResult.call.mock), <<>>)
            ELSE getBinaryPath(pathResult.call.env, platform, arch,
                               pathResult.call.fallback, installed)

\* The last call was made with no substitution and no override and failed; the
\* override has been set since, without a new call.
C17_Witness ==
    /\ Called /\ ~SawMock
    /\ pathResult.out.kind = "throw"
    /\ Truthy(envBinaryPath) /\ ~SawEnv

\* The last call returned the substitution, which has been cleared since.
C17_WitnessCleared ==
    /\ Called /\ SawMock
    /\ pathResult.out.path = LiteralPath("/mock/gsoc2-cli")
    /\ mockedBinaryPath = UNDEFINED

\* The last call, made with no substitution and no override, returned the fallback
\* file that was there when it was made.
C17_WitnessFallback ==
    /\ Called /\ ~SawMock /\ ~SawEnv
    /\ pathResult.call.fallback
    /\ pathResult.out = Returned(getFallbackBinaryPath(platform), <<>>)

(***************************************************************************)
(* Project flags and the releases commands that use them.                  *)
(***************************************************************************)
\* Largest number of projects given to one releases command.
MaxProjects == 3

getProjectFlagsFromOptionsSingleFlag(options) ==
    LET opts == IF options = Undef THEN <<>> ELSE options.o
        given == Get(opts, "projects")
    IN IF given = Undef \/ given.a = <<>> THEN <<>> ELSE <<Str("-p")>> \o given.a

\* projects.reduce((flags, project) => flags.concat('-p', project), flags)
RECURSIVE ReduceProjects(_, _)
ReduceProjects(flags, projects) ==
    IF Len(projects) = 0 THEN flags
    ELSE ReduceProjects(flags \o ConcatArg(Str("-p")) \o ConcatArg(Head(projects)),
                        Tail(projects))

\* The parameter { projects = [] } = {}: a missing options object is {}, a missing
\* projects property is [].
getProjectFlagsFromOptions(options) ==
    LET opts == IF options = Undef THEN <<>> ELSE options.o
        given == Get(opts, "projects")
        projects == IF given = Undef THEN <<>> ELSE given.a
    IN ReduceProjects(<<>>, projects)

ProjectNames == {"proj-a", "proj-b", "proj-c"}
ProjectLists ==
    UNION {[1..n -> {Str(name) : name \in ProjectNames}] : n \in 0..MaxProjects}
\* The options of a releases command: missing, without projects, with projects.
ReleaseOptions ==
    {Undef, Obj(<<>>)} \cup {Obj(<<Prop("projects", Arr(ps))>>) : ps \in ProjectLists}
Versions == {"my-version", "1.0.0"}
IncludePaths == {"path", "other-path"}

\* The execute invocation a releases command makes.
RelCall(op, version, options, include, args, live) ==
    [op |-> op, version |-> version, options |-> options, include |-> include,
     args |-> args, live |-> live]

\* releases.new(version, options)
ReleasesNew ==
    /\ relResult = RelIdle
    /\ \E version \in Versions, options \in ReleaseOptions :
         relResult' = RelCall("new", version, options, "",
                              <<Str("releases"), Str("new"), Str(version)>>
                                  \o getProjectFlagsFromOptions(options),
                              Null)
    /\ UNCHANGED <<platform, arch, envBinaryPath, mockedBinaryPath, fallbackExists,
                   installed, pathResult, distResult, serResult, procEnv, execResult,
                   calls>>

\* releases.uploadSourceMaps(version, { include: [path], projects }), for one entry of
\* include with the default ignore list.
ReleasesUploadSourceMaps ==
    /\ relResult = RelIdle
    /\ \E version \in Versions, options \in ReleaseOptions \ {Undef},
          path \in IncludePaths :
         relResult' = RelCall("uploadSourceMaps", version, options, path,
                              <<Str("releases")>> \o getProjectFlagsFromOptions(options)
                                  \o <<Str("files"), Str(version),
                                       Str("upload-sourcemaps"), Str(path),
                                       Str("--ignore"), Str("node_modules")>>,
                              Bool(TRUE))
    /\ UNCHANGED <<platform, arch, envBinaryPath, mockedBinaryPath, fallbackExists,
                   installed, pathResult, distResult, serResult, procEnv, execResult,
                   calls>>

\* The caller has seen the command's outcome; the next command starts afresh.
RelCallerContinues ==
    /\ relResult # RelIdle
    /\ relResult' = RelIdle
    /\ UNCHANGED <<platform, arch, envBinaryPath, mockedBinaryPath, fallbackExists,
                   installed, pathResult, distResult, serResult, procEnv, execResult,
                   calls>>

NextRel == ReleasesNew \/ ReleasesUploadSourceMaps \/ RelCallerContinues

InitRelSpec == InitPathFixed /\ InitSer /\ InitExecIdle /\ InitCallsIdle /\ InitRelIdle

SpecRel == InitRelSpec /\ [][NextRel]_vars

\* The projects a command was given: none when options or projects is missing.
GivenProjects ==
    IF relResult.options = Undef \/ Get(relResult.options.o, "projects") = Undef
    THEN <<>>
    ELSE Get(relResult.options.o, "projects").a

\* One ('-p', project) pair per project, in order.
ProjectPairs(projects) ==
    [i \in 1..(2 * Len(projects)) |->
        IF i % 2 = 1 THEN Str("-p") ELSE projects[i \div 2]]

\* C18: the project selection is passed as one ('-p', project) pair per project, in
\* order, and as no tokens when projects is absent or the options object is missing:
\* releases.new calls execute with 'releases', 'new', the version and then the pairs;
\* releases.uploadSourceMaps places the pairs directly after 'releases' and before
\* 'files'.
C18_ProjectFlags ==
    LET pairs == ProjectPairs(GivenProjects)
    IN /\ relResult.op = "new" =>
             relResult.args = <<Str("releases"), Str("new"), Str(relResult.version)>>
                                  \o pairs
       /\ relResult.op = "uploadSourceMaps" =>
             /\ SubSeq(relResult.args, 1, 1 + Len(pairs)) = <<Str("releases")>> \o pairs
             /\ SubSeq(relResult.args, 2 + Len(pairs), 4 + Len(pairs))
                   = <<Str("files"), Str(relResult.version), Str("upload-sourcemaps")>>
             /\ \A i \in DOMAIN relResult.args :
                   relResult.args[i] = Str("-p") => i <= Len(pairs)

\* releases.new with two projects.
C18_Witness ==
    /\ relResult.op = "new"
    /\ relResult.args = <<Str("releases"), Str("new"), Str("my-version"),
                          Str("-p"), Str("proj-a"), Str("-p"), Str("proj-b")>>

\* releases.uploadSourceMaps with two projects.
C18_WitnessUpload ==
    /\ relResult.op = "uploadSourceMaps"
    /\ relResult.args = <<Str("releases"), Str("-p"), Str("proj-a"), Str("-p"),
                          Str("proj-b"), Str("files"), Str("my-version"),
                          Str("upload-sourcemaps"), Str("path"), Str("--ignore"),
                          Str("node_modules")>>

\* releases.new without an options object.
C18_WitnessNoOptions ==
    /\ relResult.op = "new"
    /\ relResult.options = Undef
    /\ relResult.args = <<Str("releases"), Str("new"), Str("my-version")>>

====
